---------------------------- MODULE Spec2Model ----------------------------
(***************************************************************************)
(* Model of the insurer-reliability widget and of its smoke test.          *)
(*                                                                         *)
(*   Spec       the App component (widget-ui/src/App.jsx): fetch of the    *)
(*              artifact, search, sort, pagination, page-reset effect.     *)
(*   SpecCard   the InsurerCard component (second version in               *)
(*              widget-ui/src/components/InsurerCard.jsx) as a function of *)
(*              one insurer record.                                        *)
(*   SpecSmoke  the steps of verify_extraction.sh.                         *)
(*                                                                         *)
(* Numbers that may carry one decimal (scores, ratings) are kept in tenths:*)
(* 900 is 90.0, 42 is 4.2.  Strings that are searched are sequences of     *)
(* one-character strings.                                                  *)
(***************************************************************************)
EXTENDS Integers, Sequences, FiniteSets, TLC

VARIABLES
    \* ---- App.jsx
    insurers,       \* useState([])       line 8
    loading,        \* useState(true)     line 9
    searchTerm,     \* useState('')       line 10
    sortKey,        \* useState('score')  line 11
    currentPage,    \* useState(1)        line 14
    fetched,        \* what fetch(API_URL) settled with (line 18); "pending" before
    effectPending,  \* the effect of lines 33-35 is scheduled and has not run yet
    setCount,       \* number of calls of setInsurers so far (line 24)
    \* ---- InsurerCard.jsx
    insurer,        \* the prop of the card
    card,           \* what the card rendered
    \* ---- verify_extraction.sh
    pc,             \* the step the script is at
    exitCode,       \* exit status once pc = "done"
    artifact,       \* content of api/v1/insurers.json
    artifactBefore, \* its content when the script started
    gzCount         \* number of data/raw/opin/*.json.gz files

vars == <<insurers, loading, searchTerm, sortKey, currentPage, fetched,
          effectPending, setCount, insurer, card, pc, exitCode, artifact,
          artifactBefore, gzCount>>

appVars   == <<insurers, loading, searchTerm, sortKey, currentPage, fetched,
               effectPending, setCount>>
cardVars  == <<insurer, card>>
smokeVars == <<pc, exitCode, artifact, artifactBefore, gzCount>>

-----------------------------------------------------------------------------
(* Bounds of the inputs *)

\* longest fetched list that is enumerated record by record
MaxLen == 3
\* length of the long fetched lists (several pages)
PadLen == 21
\* largest number of product files the extraction or the provenance lists
MaxFiles == 4
\* largest number of insurers in a built artifact
MaxBuilt == 2

-----------------------------------------------------------------------------
(* JavaScript values *)

Undef  == [t |-> "undef", v |-> 0]
N(x)   == [t |-> "num", v |-> x]

Max(a, b) == IF a >= b THEN a ELSE b
Min(a, b) == IF a <= b THEN a ELSE b

\* Number(x) || rest  for x undefined or a number: undefined gives NaN, NaN and
\* 0 are falsy
OrNum(x, rest) == IF x.t = "num" /\ x.v # 0 THEN x.v ELSE rest

\* String.prototype.toLowerCase on the alphabet used
LowerChar(c) == IF c = "A" THEN "a" ELSE IF c = "B" THEN "b" ELSE c
ToLowerCase(s) == [i \in 1..Len(s) |-> LowerChar(s[i])]

\* String.prototype.includes
Includes(s, t) ==
    \E i \in 0..(Len(s) - Len(t)) : SubSeq(s, i + 1, i + Len(t)) = t

\* reputation: undefined, a number, or the structured object
NoRep      == [t |-> "undef", v |-> 0, satisfaction_avg |-> Undef,
               overallSatisfaction |-> Undef, nota |-> Undef]
RepNum(x)  == [t |-> "num", v |-> x, satisfaction_avg |-> Undef,
               overallSatisfaction |-> Undef, nota |-> Undef]
RepObj(a, b, c) == [t |-> "obj", v |-> 0, satisfaction_avg |-> a,
                    overallSatisfaction |-> b, nota |-> c]

\* one entry of the artifact's insurers list; name = <<>> stands for no name
Rec(c, nm, s, f, p, sol, fv, rep, op) ==
    [cnpj |-> c, name |-> nm, score |-> s, financial_score |-> f,
     premiums |-> p, solvency |-> sol, financial_value |-> fv,
     reputation |-> rep, opin |-> op]

-----------------------------------------------------------------------------
(* App.jsx: pure parts *)

itemsPerPage == 10

RECURSIVE UniqueKeys(_, _)
\* keys of the Map in insertion order: a key keeps the place of its first set()
UniqueKeys(raw, seen) ==
    IF raw = <<>> THEN <<>>
    ELSE IF Head(raw).cnpj \in seen THEN UniqueKeys(Tail(raw), seen)
    ELSE <<Head(raw).cnpj>> \o UniqueKeys(Tail(raw), seen \cup {Head(raw).cnpj})

\* value the Map holds for key k: the one of the last set(k, item)
LastWith(raw, k) ==
    raw[CHOOSE i \in 1..Len(raw) :
            /\ raw[i].cnpj = k
            /\ \A j \in (i + 1)..Len(raw) : raw[j].cnpj # k]

\* a Map that kept the first item of a key (what a has()-guarded set would do)
MapValueFirst(raw, k) ==
    raw[CHOOSE i \in 1..Len(raw) :
            /\ raw[i].cnpj = k
            /\ \A j \in 1..(i - 1) : raw[j].cnpj # k]

\* the value of key k in new Map(rawList.map(item => [item.cnpj, item]))
MapValue(raw, k) == LastWith(raw, k)

\* Array.from(new Map(rawList.map(item => [item.cnpj, item])).values())
UniqueList(raw) ==
    LET keys == UniqueKeys(raw, {})
    IN  [i \in 1..Len(keys) |-> MapValue(raw, keys[i])]

\* the predicate of res.filter
Matches(i, t) ==
    \/ (i.name # <<>> /\ Includes(ToLowerCase(i.name), t))
    \/ (i.cnpj # <<>> /\ Includes(i.cnpj, t))

Filter(list, term) ==
    IF term = <<>> THEN list
    ELSE LET t == ToLowerCase(term)
         IN  SelectSeq(list, LAMBDA i : Matches(i, t))

\* scoreA / scoreB of the comparator
ScoreKey(a) == OrNum(a.financial_score, OrNum(a.score, 0))

\* premA / premB of the comparator
PremKey(a) == OrNum(a.premiums, 0)

\* a comparator that forgets the tie-break on premiums
CompareNoTieBreak(a, b, key) ==
    IF key = "score" THEN ScoreKey(b) - ScoreKey(a)
    ELSE IF key = "premiums" THEN PremKey(b) - PremKey(a)
    ELSE 0

\* the comparator handed to res.sort
Compare(a, b, key) ==
    IF key = "score"
    THEN IF ScoreKey(b) # ScoreKey(a) THEN ScoreKey(b) - ScoreKey(a)
         ELSE PremKey(b) - PremKey(a)
    ELSE IF key = "premiums" THEN PremKey(b) - PremKey(a)
    ELSE 0

RECURSIVE InsertSorted(_, _, _)
InsertSorted(x, s, key) ==
    IF s = <<>> THEN <<x>>
    ELSE IF Compare(Head(s), x, key) <= 0
         THEN <<Head(s)>> \o InsertSorted(x, Tail(s), key)
         ELSE <<x>> \o s

RECURSIVE SortFrom(_, _, _)
SortFrom(list, acc, key) ==
    IF list = <<>> THEN acc
    ELSE SortFrom(Tail(list), InsertSorted(Head(list), acc, key), key)

\* Array.prototype.sort (stable) with the comparator
Sort(list, key) == SortFrom(list, <<>>, key)

\* useMemo of lines 37-74
ProcessedData(list, term, key) == Sort(Filter(list, term), key)

\* let res = insurers (no copy): when nothing is filtered the sort is in place
HeldAfterRenderAliased(list, term, key) ==
    IF term = <<>> THEN Sort(list, key) ELSE list

\* the array held in state after a render computed processedData: line 38
\* copies it ([...insurers]) before filter and sort touch anything
HeldAfterRender(list, term, key) == list

\* Math.ceil(processedData.length / itemsPerPage)
TotalPagesOf(n) == (n + itemsPerPage - 1) \div itemsPerPage

\* processedData.slice((currentPage - 1) * itemsPerPage, currentPage * itemsPerPage)
Slice(list, from, to) ==
    SubSeq(list, Min(from, Len(list)) + 1, Min(to, Len(list)))

PaginatedData(list, page) ==
    Slice(list, (page - 1) * itemsPerPage, page * itemsPerPage)

\* an effect that does not reset the page
ResetPageKeep(p) == p

\* setCurrentPage(1) of the effect
ResetPage(p) == 1

PrevPage(p) == Max(1, p - 1)

NextPage(p, total) == Min(total, p + 1)


-----------------------------------------------------------------------------
(* Inputs of the App: the lists the fetch may deliver *)

Cnpjs == {<<"1", "2">>, <<"2", "1">>, <<"3">>}

\* the artifact carries one name per insurer
NameOf(c) == IF c = <<"1", "2">> THEN <<"A", "b">>
             ELSE IF c = <<"2", "1">> THEN <<"b">>
             ELSE <<>>

\* and one premium volume per insurer
PremiumsOf(c) == IF c = <<"1", "2">> THEN Undef
                 ELSE IF c = <<"2", "1">> THEN N(2)
                 ELSE N(1)

AppRecords ==
    {Rec(c, NameOf(c), s, f, PremiumsOf(c), Undef, Undef, NoRep, FALSE) :
        c \in Cnpjs, s \in {Undef, N(900)}, f \in {Undef, N(500)}}

RECURSIVE SeqsUpTo(_, _)
SeqsUpTo(S, n) ==
    IF n = 0 THEN {<<>>}
    ELSE LET shorter == SeqsUpTo(S, n - 1)
         IN  shorter \cup {Append(q, x) : q \in shorter, x \in S}

DigitChar(d) == <<"0", "1", "2", "3", "4", "5", "6", "7", "8", "9">>[d + 1]

\* the i-th record of a long list: its own cnpj, alternating names, scores
\* and premiums that repeat so that ties occur
FillerRec(i) ==
    Rec(<<"9", DigitChar((i \div 10) % 10), DigitChar(i % 10)>>,
        IF i % 2 = 1 THEN <<"A", "b">> ELSE <<"c">>,
        IF i % 4 = 0 THEN Undef ELSE N(((i * 7) % 5) * 200),
        IF i % 5 = 0 THEN N(500) ELSE Undef,
        IF i % 3 = 0 THEN Undef ELSE N(i % 3),
        Undef, Undef, NoRep, FALSE)

Filler == [i \in 1..PadLen |-> FillerRec(i)]

RawLists ==
    SeqsUpTo(AppRecords, MaxLen)
        \cup {q \o Filler : q \in SeqsUpTo(AppRecords, 1)}
        \cup {Filler \o q : q \in SeqsUpTo(AppRecords, 1)}

SearchTerms == {<<>>, <<"2">>, <<"A">>, <<"b">>}

SortKeys == {"score", "premiums"}

\* how the promise chain of lines 18-30 can settle without a list:
\*   noInsurers  the body has no insurers key: data.insurers || [] is []
\*   rejected    fetch rejects
\*   badJson     res.json() rejects
\*   notArray    data.insurers is truthy and no array: rawList.map throws
FailureKinds == {"rejected", "badJson", "notArray"}

-----------------------------------------------------------------------------
(* App.jsx: the component *)

Processed == ProcessedData(insurers, searchTerm, sortKey)
totalPages == TotalPagesOf(Len(Processed))
Paginated == PaginatedData(Processed, currentPage)

CardIdle == [rendered |-> FALSE]
SmokeIdle ==
    /\ pc = "idle"
    /\ exitCode = 0
    /\ artifact = <<>>
    /\ artifactBefore = <<>>
    /\ gzCount = 0

\* the component is mounted, the fetch is in flight; the effect of lines 33-35
\* ran once at mount and set the page to the 1 it already was
Init ==
    /\ insurers = <<>>
    /\ loading = TRUE
    /\ searchTerm = <<>>
    /\ sortKey = "score"
    /\ currentPage = 1
    /\ fetched = [kind |-> "pending", list |-> <<>>]
    /\ effectPending = FALSE
    /\ setCount = 0
    /\ insurer = Rec(<<>>, <<>>, Undef, Undef, Undef, Undef, Undef, NoRep, FALSE)
    /\ card = CardIdle
    /\ SmokeIdle

\* lines 20-26 with a body that carries an insurers list
FetchSucceeds ==
    /\ fetched.kind = "pending"
    /\ fetched' \in [kind : {"ok"}, list : RawLists]
    /\ insurers' = HeldAfterRender(UniqueList(fetched'.list), searchTerm, sortKey)
    /\ setCount' = setCount + 1
    /\ loading' = FALSE
    /\ UNCHANGED <<searchTerm, sortKey, currentPage, effectPending>>
    /\ UNCHANGED <<cardVars, smokeVars>>

\* lines 20-26 with a body without insurers: rawList is []
FetchWithoutList ==
    /\ fetched.kind = "pending"
    /\ fetched' = [kind |-> "noInsurers", list |-> <<>>]
    /\ insurers' = HeldAfterRender(UniqueList(<<>>), searchTerm, sortKey)
    /\ setCount' = setCount + 1
    /\ loading' = FALSE
    /\ UNCHANGED <<searchTerm, sortKey, currentPage, effectPending>>
    /\ UNCHANGED <<cardVars, smokeVars>>

\* a catch that only logs the error
LoadingAfterCatchKept == TRUE

\* line 29: setLoading(false) in the catch
LoadingAfterCatch == FALSE

\* lines 27-30: the catch
FetchFails ==
    /\ fetched.kind = "pending"
    /\ \E k \in FailureKinds : fetched' = [kind |-> k, list |-> <<>>]
    /\ loading' = LoadingAfterCatch
    /\ UNCHANGED <<insurers, setCount, searchTerm, sortKey, currentPage,
                   effectPending>>
    /\ UNCHANGED <<cardVars, smokeVars>>

\* The controls exist only once the spinner of lines 83-87 is gone, and React
\* runs the effects of a committed render before it handles the next event.
CanInteract == loading = FALSE /\ effectPending = FALSE

\* line 113: onChange of the search input; the render that follows has the
\* new term and the old page, and schedules the effect of lines 33-35
SetSearchTerm ==
    /\ CanInteract
    /\ \E t \in SearchTerms :
        /\ t # searchTerm
        /\ searchTerm' = t
        /\ insurers' = HeldAfterRender(insurers, t, sortKey)
    /\ effectPending' = TRUE
    /\ UNCHANGED <<loading, sortKey, currentPage, fetched, setCount>>
    /\ UNCHANGED <<cardVars, smokeVars>>

\* lines 122 and 132: the sort buttons; setting the key it already has
\* re-renders nothing
SetSortKey ==
    /\ CanInteract
    /\ \E k \in SortKeys :
        /\ k # sortKey
        /\ sortKey' = k
        /\ insurers' = HeldAfterRender(insurers, searchTerm, k)
    /\ effectPending' = TRUE
    /\ UNCHANGED <<loading, searchTerm, currentPage, fetched, setCount>>
    /\ UNCHANGED <<cardVars, smokeVars>>

\* lines 33-35
PageResetEffect ==
    /\ effectPending = TRUE
    /\ currentPage' = ResetPage(currentPage)
    /\ effectPending' = FALSE
    /\ UNCHANGED <<insurers, loading, searchTerm, sortKey, fetched, setCount>>
    /\ UNCHANGED <<cardVars, smokeVars>>

\* lines 162-170: rendered when totalPages > 1, disabled on page 1
ClickPrevious ==
    /\ CanInteract
    /\ totalPages > 1
    /\ currentPage # 1
    /\ currentPage' = PrevPage(currentPage)
    /\ UNCHANGED <<insurers, loading, searchTerm, sortKey, fetched,
                   effectPending, setCount>>
    /\ UNCHANGED <<cardVars, smokeVars>>

\* lines 176-182: rendered when totalPages > 1, disabled on the last page
ClickNext ==
    /\ CanInteract
    /\ totalPages > 1
    /\ currentPage # totalPages
    /\ currentPage' = NextPage(currentPage, totalPages)
    /\ UNCHANGED <<insurers, loading, searchTerm, sortKey, fetched,
                   effectPending, setCount>>
    /\ UNCHANGED <<cardVars, smokeVars>>

Next ==
    \/ FetchSucceeds
    \/ FetchWithoutList
    \/ FetchFails
    \/ SetSearchTerm
    \/ SetSortKey
    \/ PageResetEffect
    \/ ClickPrevious
    \/ ClickNext

Spec == Init /\ [][Next]_vars

\* the promise of line 18 settles: it is fulfilled or rejected at some point
FetchSettles == FetchSucceeds \/ FetchWithoutList \/ FetchFails

SpecSettling == Spec /\ WF_vars(FetchSettles)


-----------------------------------------------------------------------------
(* InsurerCard.jsx (lines 78-242): the card as a function of its prop *)

\* texts the card can show where a number is expected
NoScoreText  == [kind |-> "--", v |-> 0]
NoSolvText   == [kind |-> "-", v |-> 0]
NoRepText    == [kind |-> "N/A", v |-> 0]
\* a number printed with one decimal: v is in tenths
Fixed1Text(x) == [kind |-> "fixed1", v |-> x]
\* a number printed without decimals: v is the integer printed
Fixed0Text(x) == [kind |-> "fixed0", v |-> x]

\* Number.prototype.toFixed(1) of a value in tenths: its tenths
ToFixed1(x) == Fixed1Text(x)

\* Number.prototype.toFixed(0) of a value in tenths: halves round away from 0
ToFixed0(x) ==
    Fixed0Text(IF x >= 0 THEN (x + 5) \div 10 ELSE 0 - ((5 - x) \div 10))

\* line 86
CardScore(i) == OrNum(i.score, OrNum(i.financial_score, 0))

\* lines 89-91
CardSolvency(i) == OrNum(i.solvency, OrNum(i.financial_value, 0))

\* line 105: repObj.satisfaction_avg || repObj.overallSatisfaction || repObj.nota || 0
RawNota(rep) ==
    OrNum(rep.satisfaction_avg, OrNum(rep.overallSatisfaction, OrNum(rep.nota, 0)))

\* line 112, in tenths: rawNota <= 5 ? rawNota * 20 : rawNota * 10
Rescale(rawNota) == IF rawNota <= 50 THEN rawNota * 20 ELSE rawNota * 10

\* lines 94-114: <<hasReputation, reputationScore>>
CardReputation(i) ==
    LET rep == i.reputation
    IN  IF rep.t = "num" THEN <<TRUE, rep.v>>
        ELSE IF rep.t = "obj" /\ RawNota(rep) > 0
             THEN <<TRUE, Rescale(RawNota(rep))>>
             ELSE <<FALSE, 0>>

\* lines 125-147, thresholds in tenths
CardLabel(score, solvency) ==
    IF score > 0 \/ solvency > 0
    THEN IF score = 0 /\ solvency > 0 THEN "DADOS PARCIAIS"
         ELSE IF score < 500 THEN "ATENCAO"
         ELSE IF score < 700 THEN "REGULAR"
         ELSE IF score < 850 THEN "BOM"
         ELSE "EXCELENTE"
    ELSE "EM ANALISE"

\* lines 149-241: what is shown
InsurerCard(i) ==
    LET score    == CardScore(i)
        solvency == CardSolvency(i)
        rep      == CardReputation(i)
    IN  [rendered       |-> TRUE,
         score          |-> score,
         solvency       |-> solvency,
         hasReputation  |-> rep[1],
         reputationScore |-> rep[2],
         label          |-> CardLabel(score, solvency),
         scoreText      |-> IF score > 0 THEN ToFixed1(score) ELSE NoScoreText,
         solvencyText   |-> IF solvency > 0 THEN ToFixed0(solvency) ELSE NoSolvText,
         reputationText |-> IF rep[1] THEN ToFixed0(rep[2]) ELSE NoRepText,
         opinBadge      |-> i.opin]

RepObjects ==
    {RepObj(a, b, c) :
        a \in {Undef, N(0), N(42), N(85), N(110), N(500)},
        b \in {Undef, N(90)},
        c \in {Undef, N(1000)}}

CardRecords ==
    {Rec(<<"3">>, <<"A", "b">>, s, f, Undef, sol, fv, rep, op) :
        s \in {Undef, N(0), N(900)},
        f \in {Undef, N(0), N(500)},
        sol \in {Undef, N(0), N(720)},
        fv \in {Undef, N(600)},
        rep \in {NoRep, RepNum(0), RepNum(840)} \cup RepObjects,
        op \in {FALSE}}

AppIdle ==
    /\ insurers = <<>>
    /\ loading = TRUE
    /\ searchTerm = <<>>
    /\ sortKey = "score"
    /\ currentPage = 1
    /\ fetched = [kind |-> "pending", list |-> <<>>]
    /\ effectPending = FALSE
    /\ setCount = 0

InitCard ==
    /\ AppIdle
    /\ SmokeIdle
    /\ insurer \in CardRecords
    /\ card = CardIdle

RenderCard ==
    /\ card.rendered = FALSE
    /\ card' = InsurerCard(insurer)
    /\ UNCHANGED <<insurer, appVars, smokeVars>>

NextCard == RenderCard

SpecCard == InitCard /\ [][NextCard]_vars

-----------------------------------------------------------------------------
(* verify_extraction.sh (lines 1-90) *)

\* line 69: if len(files) < 3
MinFiles == 3

\* what api/v1/insurers.json can hold: <<>> is no file.  build tells the file
\* of this run (1) from the one that was there before (0); usable is FALSE
\* when json.loads or a .get on the top level raises; opin is the value of
\* sources.open_insurance_products (missing, an empty dict, or a dict with
\* `files` entries in its files list); flagged counts the insurers with a
\* truthy flags.openInsuranceParticipant among `total`.
Content(b, u, o, n, fl, tot) ==
    [build |-> b, usable |-> u, opin |-> o, files |-> n, flagged |-> fl,
     total |-> tot]

Contents(b) ==
    {Content(b, FALSE, "missing", 0, 0, 0)}
        \cup {Content(b, TRUE, o, 0, fl, tot) :
                o \in {"missing", "empty"}, fl \in 0..MaxBuilt, tot \in {MaxBuilt}}
        \cup {Content(b, TRUE, "dict", n, fl, tot) :
                n \in 0..MaxFiles, fl \in 0..MaxBuilt, tot \in {MaxBuilt}}

Files(b) == {<<>>} \cup {<<c>> : c \in Contents(b)}

\* lines 47-90: the exit status of the embedded audit
AuditExit(a) ==
    IF a = <<>> THEN 1                       \* lines 54-56
    ELSE IF ~a[1].usable THEN 1              \* lines 87-89
    ELSE IF a[1].opin # "dict" THEN 1        \* lines 64-66
    ELSE IF a[1].flagged = 0 THEN 1          \* lines 81-83
    ELSE 0                                   \* lines 69-72 only print

InitSmoke ==
    /\ AppIdle
    /\ insurer = Rec(<<>>, <<>>, Undef, Undef, Undef, Undef, Undef, NoRep, FALSE)
    /\ card = CardIdle
    /\ pc = "clean"
    /\ exitCode = 0
    /\ artifactBefore \in Files(0)
    /\ artifact = artifactBefore
    /\ gzCount \in 0..MaxFiles

\* lines 8-12: rm -f of the raw files and of the artifact
Clean ==
    /\ pc = "clean"
    /\ gzCount' = 0
    /\ artifact' = <<>>
    /\ pc' = "deps"
    /\ UNCHANGED <<exitCode, artifactBefore, appVars, cardVars>>

\* lines 14-20: python -c "import curl_cffi"
CheckDependencies ==
    /\ pc = "deps"
    /\ \/ pc' = "extract" /\ exitCode' = exitCode
       \/ pc' = "done" /\ exitCode' = 1
    /\ UNCHANGED <<artifact, artifactBefore, gzCount, appVars, cardVars>>

\* line 25: python -m api.sources.opin_products, an external command that
\* leaves any number of files and succeeds or not (set -e ends the script)
ExtractProducts ==
    /\ pc = "extract"
    /\ \E n \in 0..MaxFiles : gzCount' = n
    /\ \/ pc' = "count" /\ exitCode' = exitCode
       \/ pc' = "done" /\ exitCode' = 1
    /\ UNCHANGED <<artifact, artifactBefore, appVars, cardVars>>

\* lines 27-37
CountProducts ==
    /\ pc = "count"
    /\ IF gzCount = 0
       THEN pc' = "done" /\ exitCode' = 1
       ELSE pc' = "build" /\ exitCode' = exitCode
    /\ UNCHANGED <<artifact, artifactBefore, gzCount, appVars, cardVars>>

\* line 42: python -m api.build_insurers, an external command that leaves
\* any file or none and succeeds or not (set -e ends the script)
BuildInsurers ==
    /\ pc = "build"
    /\ \E f \in Files(1) : artifact' = f
    /\ \/ pc' = "audit" /\ exitCode' = exitCode
       \/ pc' = "done" /\ exitCode' = 1
    /\ UNCHANGED <<artifactBefore, gzCount, appVars, cardVars>>

\* lines 44-90: the script ends with the status of the audit
Audit ==
    /\ pc = "audit"
    /\ exitCode' = AuditExit(artifact)
    /\ pc' = "done"
    /\ UNCHANGED <<artifact, artifactBefore, gzCount, appVars, cardVars>>

NextSmoke ==
    \/ Clean
    \/ CheckDependencies
    \/ ExtractProducts
    \/ CountProducts
    \/ BuildInsurers
    \/ Audit

SpecSmoke == InitSmoke /\ [][NextSmoke]_vars


-----------------------------------------------------------------------------
(* Properties of the App (checked under Spec) *)

\* C1: once a fetched list is loaded, the held list has one entry per
\* distinct cnpj of the fetched list, no cnpj twice, and the entry of a cnpj
\* is the record of its last occurrence in the fetched list.
C1_DedupLastWins ==
    fetched.kind = "ok" =>
        LET raw == fetched.list
        IN  /\ \A i, j \in 1..Len(insurers) :
                    i # j => insurers[i].cnpj # insurers[j].cnpj
            /\ {insurers[i].cnpj : i \in 1..Len(insurers)}
                    = {raw[i].cnpj : i \in 1..Len(raw)}
            /\ \A i \in 1..Len(insurers) :
                    \E j \in 1..Len(raw) :
                        /\ raw[j] = insurers[i]
                        /\ \A k \in (j + 1)..Len(raw) :
                                raw[k].cnpj # insurers[i].cnpj

\* a list with a repeated cnpj carrying two different records was loaded
C1_Witness ==
    /\ fetched.kind = "ok"
    /\ Len(insurers) < Len(fetched.list)
    /\ \E i, j \in 1..Len(fetched.list) :
            /\ i < j
            /\ fetched.list[i].cnpj = fetched.list[j].cnpj
            /\ fetched.list[i] # fetched.list[j]

\* the order the tie-break policy asks for, with the score and the premiums
\* the comparator reads (ScoreKey, PremKey)
RankedByScore(list) ==
    \A i, j \in 1..Len(list) :
        i < j =>
            /\ ScoreKey(list[i]) >= ScoreKey(list[j])
            /\ ScoreKey(list[i]) = ScoreKey(list[j])
                    => PremKey(list[i]) >= PremKey(list[j])

\* C2: with sort key 'score', whatever the loaded list, the search term and
\* the page, an insurer listed before another has a score at least as high
\* and, at equal score, premiums at least as high.
C2_ScoreRanking ==
    (loading = FALSE /\ sortKey = "score") =>
        /\ RankedByScore(Processed)
        /\ RankedByScore(Paginated)

\* a filtered page that the sort reordered and that shows a tie on the score
\* broken by the premiums
C2_Witness ==
    /\ loading = FALSE
    /\ sortKey = "score"
    /\ searchTerm # <<>>
    /\ Processed # Filter(insurers, searchTerm)
    /\ \E i, j \in 1..Len(Paginated) :
            /\ i < j
            /\ ScoreKey(Paginated[i]) = ScoreKey(Paginated[j])
            /\ PremKey(Paginated[i]) > PremKey(Paginated[j])

\* the scores the cards of a list show, top to bottom
ShownScores(list) == [i \in 1..Len(list) |-> InsurerCard(list[i]).score]

NonIncreasing(q) == \A i, j \in 1..Len(q) : i < j => q[i] >= q[j]

\* C8: the score App sorts a record by is the score its card shows, so with
\* sort key 'score' the scores on the cards do not increase down the list.
C8_RankingMatchesDisplay ==
    loading = FALSE =>
        /\ \A i \in 1..Len(insurers) :
                ScoreKey(insurers[i]) = InsurerCard(insurers[i]).score
        /\ sortKey = "score" => NonIncreasing(ShownScores(Paginated))

\* C9: once the artifact is loaded no step changes the held list.
C9_DisplayOnly == [][loading = FALSE => insurers' = insurers]_vars

\* the user searched, switched the sort key and paged forward over a held
\* list that is in neither sort order
C9_Witness ==
    /\ fetched.kind = "ok"
    /\ loading = FALSE
    /\ searchTerm # <<>>
    /\ sortKey = "premiums"
    /\ currentPage > 1
    /\ insurers # Sort(insurers, "score")
    /\ insurers # Sort(insurers, "premiums")
    /\ Len(Processed) < Len(insurers)

PageInRange == 1 <= currentPage /\ currentPage <= Max(1, totalPages)

\* C10 as stated: in every rendered state the page is within
\* 1..max(1, totalPages), so no empty page is shown over a non-empty result.
C10_PageInRangeAlways ==
    /\ PageInRange
    /\ Len(Processed) > 0 => Len(Paginated) > 0

\* C10 amended: the same in every rendered state in which the page-reset
\* effect of the last search or sort change has run.
C10_PageInRangeSettled ==
    effectPending = FALSE =>
        /\ PageInRange
        /\ Len(Processed) > 0 => Len(Paginated) > 0

\* the last page of a filtered result of several pages, reached by clicks
\* after the reset
C10_Witness ==
    /\ loading = FALSE
    /\ effectPending = FALSE
    /\ searchTerm # <<>>
    /\ totalPages >= 2
    /\ currentPage = totalPages
    /\ Len(Processed) < Len(insurers)

\* C11: a step that changes the search term or the sort key leaves the page
\* as it is and schedules the reset; while the reset is scheduled the only
\* step taken is the one that sets currentPage to 1, so no previous/next
\* click comes before it; a previous/next click moves currentPage by exactly
\* one and leaves the search term and the sort key as they are.
C11_ResetBeforeClicks ==
    [][/\ (searchTerm' # searchTerm \/ sortKey' # sortKey)
            => (effectPending' /\ currentPage' = currentPage)
       /\ effectPending
            => /\ currentPage' = 1
               /\ effectPending' = FALSE
               /\ searchTerm' = searchTerm
               /\ sortKey' = sortKey
       /\ (effectPending = FALSE /\ currentPage' # currentPage)
            => /\ currentPage' - currentPage \in {0 - 1, 1}
               /\ searchTerm' = searchTerm
               /\ sortKey' = sortKey]_vars

\* the sort key was switched on page 3 and the reset has not run yet
C11_Witness ==
    /\ loading = FALSE
    /\ effectPending = TRUE
    /\ sortKey = "premiums"
    /\ searchTerm = <<>>
    /\ currentPage = 3

\* C12: once the fetch settles loading becomes false, on each of its paths,
\* and never true again; on the paths that deliver no list (rejected,
\* unparsable, insurers not a list, no insurers key) the held list stays
\* empty; setInsurers is called at most once, and exactly once on success.
C12_LoadingEnds ==
    /\ <>(loading = FALSE)
    /\ [](fetched.kind # "pending" => loading = FALSE)
    /\ [][loading = FALSE => loading' = FALSE]_vars
    /\ [](fetched.kind \in FailureKinds \cup {"pending", "noInsurers"}
            => insurers = <<>>)
    /\ [](fetched.kind \in FailureKinds => setCount = 0)
    /\ [](fetched.kind = "ok" => setCount = 1)
    /\ [][setCount' # setCount => (setCount = 0 /\ setCount' = 1)]_vars

\* the body could not be parsed: the spinner is gone and nothing is held
C12_Witness ==
    /\ fetched.kind = "badJson"
    /\ loading = FALSE
    /\ insurers = <<>>
    /\ setCount = 0

-----------------------------------------------------------------------------
(* Properties of the card (checked under SpecCard) *)

\* C3: an absent score or component is shown as no data, one that is present
\* with value 0 is shown as the number 0, and the two are never shown alike.
C3_AbsentIsNotZero ==
    card.rendered =>
        /\ (insurer.score = Undef /\ insurer.financial_score = Undef)
                => card.scoreText = NoScoreText
        /\ (insurer.score = N(0) /\ insurer.financial_score = Undef)
                => card.scoreText = ToFixed1(0)
        /\ (insurer.solvency = Undef /\ insurer.financial_value = Undef)
                => card.solvencyText = NoSolvText
        /\ (insurer.solvency = N(0) /\ insurer.financial_value = Undef)
                => card.solvencyText = ToFixed0(0)
        /\ insurer.reputation = NoRep => card.reputationText = NoRepText
        /\ insurer.reputation = RepNum(0) => card.reputationText = ToFixed0(0)

\* the rule of the spec, in tenths: 0-5 times 20, 0-10 times 10, else as is
RescaleRule(r) ==
    IF r <= 50 THEN r * 20 ELSE IF r <= 100 THEN r * 10 ELSE r

\* C4: a structured reputation with raw rating r in 0..100 is shown as 20*r
\* on the 0-5 scale, 10*r on the 0-10 scale and r on the 0-100 scale, hence
\* within [0,100].
C4_RescaledInto100 ==
    (card.rendered /\ insurer.reputation.t = "obj"
        /\ RawNota(insurer.reputation) > 0
        /\ RawNota(insurer.reputation) <= 1000) =>
            /\ card.hasReputation
            /\ card.reputationScore = RescaleRule(RawNota(insurer.reputation))
            /\ card.reputationScore >= 0
            /\ card.reputationScore <= 1000

Present(x) == x.t = "num" /\ x.v # 0

\* C5: of the two shapes of a signal the card uses the newer one when both
\* are there (financial_score over score, financial.value over solvency) and
\* the one that is there otherwise.
C5_NewerShapeWins ==
    card.rendered =>
        /\ Present(insurer.financial_score)
                => card.score = insurer.financial_score.v
        /\ (Present(insurer.score) /\ ~Present(insurer.financial_score))
                => card.score = insurer.score.v
        /\ Present(insurer.financial_value)
                => card.solvency = insurer.financial_value.v
        /\ (Present(insurer.solvency) /\ ~Present(insurer.financial_value))
                => card.solvency = insurer.solvency.v

-----------------------------------------------------------------------------
(* Properties of the smoke test (checked under SpecSmoke) *)

\* C6: an artifact that was there before the run is there, with the same
\* content, at every point of the run, and after a run that failed.
C6_FailedRunKeepsArtifact ==
    artifactBefore # <<>> =>
        /\ artifact # <<>>
        /\ (pc = "done" /\ exitCode # 0) => artifact = artifactBefore

\* C7: the script succeeds only if the artifact exists, its provenance of
\* open_insurance_products lists at least MinFiles files and at least one
\* insurer is flagged openInsuranceParticipant.
C7_SuccessMeansAudited ==
    (pc = "done" /\ exitCode = 0) =>
        /\ artifact # <<>>
        /\ artifact[1].usable
        /\ artifact[1].opin = "dict"
        /\ artifact[1].files >= MinFiles
        /\ artifact[1].flagged >= 1

=============================================================================
